---- MODULE Spec2Model ----
(***************************************************************************)
(* Pipeline orchestration core of the market-intelligence API:             *)
(*   - the run registry (running_tasks, task_logs),                        *)
(*   - the HTTP handlers that touch it (run, status, delete),              *)
(*   - run_pipeline, one process per submitted run, split at its awaits,   *)
(*   - the persisted tables it reads and writes (keyword,                  *)
(*     discoveredproduct, trafficintelligence).                            *)
(* The clock counts pauses longer than the five-minute "recent" window;    *)
(* what happens between two pauses lies within one window.                 *)
(*                                                                         *)
(* Spec follows the runs while no stream client is connected. BusSpec      *)
(* follows the event bus (EventStreamManager) and the stream endpoint,     *)
(* with each run reduced to the events its emitter publishes. RetrySpec    *)
(* follows one call of a function wrapped by the retry decorators.         *)
(* StoreSpec follows sequences of direct calls of the two storage upserts. *)
(* WorkerSpec follows two stage-1 saves in their worker threads.           *)
(* Live is Spec with every run_pipeline task resumed after each await.    *)
(***************************************************************************)
EXTENDS Integers, Sequences, FiniteSets, TLC

VARIABLES
    scenario,       \* which family of inputs the environment draws from
    now,            \* wall clock (datetime.now()): long pauses so far
    running_tasks,  \* keyword -> reference into heap, 0 when absent
    heap,           \* the KeywordStatus objects ever constructed
    task_logs,      \* keyword -> number of buffered log entries, -1 when absent
    tasks,          \* the run_pipeline background tasks, in creation order
    keywords,       \* table keyword: row id -> Keyword row
    products,       \* table discoveredproduct: set of rows
    traffic,        \* table trafficintelligence: rows in insertion order
    connections,    \* event_manager._connections: keyword -> registered stream ids
    pipeline_state, \* event_manager._pipeline_state: keyword -> snapshot
    lock,           \* event_manager._lock: holder and waiters
    calls,          \* keyword -> event types of the broadcast_event calls so far
    pubs,           \* the emitters: one per run, publishing its events in turn
    streams,        \* the event_generator coroutines of GET /pipeline/stream
    retry,          \* one call of a wrapper made by the retry decorators
    oplog           \* the writes made directly through the storage functions

pipevars == <<scenario, now, running_tasks, heap, task_logs, tasks,
              keywords, products, traffic>>

busvars == <<connections, pipeline_state, lock, calls, pubs, streams>>

vars == <<pipevars, busvars, retry, oplog>>

-----------------------------------------------------------------------------
(* Bounds of the model *)

MaxTasks == 2       \* runs submitted in one behaviour
NDomains == 2       \* distinct advertiser domains the scrape can return
MaxTime == 1        \* clock ticks in one behaviour
MaxAds == 2         \* largest max_ads drawn in the "main" scenario
CapDomains == 11    \* domains of the "cap" scenario (more than EnrichCap)

(* Program constants *)

EnrichCap == 10     \* recent_products[:10]
MinMaxAds == 1      \* RunRequest.max_ads ge=1
MaxMaxAds == 500    \* RunRequest.max_ads le=500

Keywords == {"1", "ab"}
NoTime == -1

Min(a, b) == IF a <= b THEN a ELSE b

-----------------------------------------------------------------------------
(* PipelineStatus and KeywordStatus *)

PipelineStatus == {"not_started", "running_step1", "completed_step1",
                   "running_step2", "completed_step2", "completed", "failed"}

Terminal == {"completed", "failed"}

KeywordStatus(k, s) ==
    [keyword |-> k, status |-> s, step1_products |-> 0, step2_enriched |-> 0,
     started_at |-> NoTime, completed_at |-> NoTime,
     duration_seconds |-> NoTime, errors |-> <<>>]

Resident(k) == running_tasks[k] # 0

-----------------------------------------------------------------------------
(* Scenarios: the inputs the environment may draw *)
(*   "main"  one run, every outcome of every collaborator                   *)
(*   "pair"  concurrent runs, collaborators that answer or raise            *)
(*   "cap"   one run that discovers more domains than the enrichment cap    *)

Scenarios == {"main", "pair", "cap"}

Universe == IF scenario = "cap" THEN 1..CapDomains ELSE 1..NDomains

TaskLimit == IF scenario = "pair" THEN MaxTasks ELSE 1

TimeLimit == IF scenario = "cap" THEN 0 ELSE MaxTime

AdsChoices ==
    CASE scenario = "main" -> MinMaxAds..MaxAds
      [] scenario = "pair" -> {MaxAds}
      [] scenario = "cap" -> {EnrichCap - 1, CapDomains}

SubmitKeywords == IF scenario = "cap" THEN {"ab"} ELSE Keywords

LogOutcomes == IF scenario = "main" THEN BOOLEAN ELSE {TRUE}

ScrapeOutcomes ==
    CASE scenario = "main" -> {"ok", "neterror", "raise"}
      [] scenario = "pair" -> {"ok", "raise"}
      [] scenario = "cap" -> {"ok"}

LookupOutcomes ==
    CASE scenario = "main" -> {"visits", "nodata", "failed", "raise"}
      [] scenario = "pair" -> {"visits"}
      [] scenario = "cap" -> {"visits"}

SaveOutcomes == IF scenario = "main" THEN BOOLEAN ELSE {TRUE}

-----------------------------------------------------------------------------
(* Persisted tables *)

NoVisits == -1
SomeVisits == 100

\* keyword_id = :keyword with a string parameter: SQLite gives the parameter
\* numeric affinity, so only a keyword that spells an integer can match.
KeywordNum(k) == IF k = "1" THEN 1 ELSE 0

\* KeywordModel(keyword=keyword): status and total_products_discovered take
\* their defaults.
KeywordModel(k) ==
    [keyword |-> k, status |-> "pending", total_products_discovered |-> 0]

KeywordRowId(kws, k) ==
    IF \E i \in 1..Len(kws) : kws[i].keyword = k
    THEN CHOOSE i \in 1..Len(kws) : kws[i].keyword = k
    ELSE 0

\* A run that adds a Keyword row without looking for one.
KeywordRecord_Always(kws, k) == Append(kws, KeywordModel(k))

\* The table after run_pipeline has looked the Keyword row up or created it.
KeywordRecord(kws, k) ==
    IF KeywordRowId(kws, k) # 0 THEN kws ELSE Append(kws, KeywordModel(k))

MaxId(rows) ==
    IF rows = {} THEN 0
    ELSE CHOOSE m \in {r.id : r \in rows} : \A r \in rows : r.id <= m

RECURSIVE SortById(_)
SortById(rows) ==
    IF rows = {} THEN <<>>
    ELSE LET first == CHOOSE r \in rows : \A q \in rows : r.id <= q.id
         IN <<first>> \o SortById(rows \ {first})

RECURSIVE Ascending(_)
Ascending(S) ==
    IF S = {} THEN <<>>
    ELSE LET m == CHOOSE x \in S : \A y \in S : x <= y
         IN <<m>> \o Ascending(S \ {m})

read_existing_domains(prods) == {p.brand_domain : p \in prods}

\* The product_data of one scraped ad. Of ad_intelligence the model keeps
\* the three estimates the upsert compares (monthly ad spend, monthly
\* impressions, campaign duration; 0 stands for a missing value) and one
\* flag that stands for the promotional features.
ProductData(domain, spend, impressions, duration, flags) ==
    [domain |-> domain, product_page_url |-> <<domain, 1>>,
     spend |-> spend, impressions |-> impressions,
     duration |-> duration, flags |-> flags]

\* A landing page URL is a root domain and a path; normalize_domain keeps
\* the root domain.
normalize_domain(url) == url[1]


\* What the scrape of the pipeline model reports for a domain.
Ad(domain) == ProductData(domain, 0, 0, 0, FALSE)

\* The product_data of an ad whose landing page is the given path of the
\* domain.
LandingPage(domain, path) ==
    [Ad(domain) EXCEPT !.product_page_url = <<domain, path>>]

Ads(domains) == [i \in 1..Len(domains) |-> Ad(domains[i])]

DiscoveredProduct(id, keyword_id, product_data, t) ==
    [id |-> id, keyword_id |-> keyword_id,
     product_page_url |-> product_data.product_page_url,
     brand_domain |-> normalize_domain(product_data.product_page_url),
     first_discovered |-> t, last_seen |-> t,
     spend |-> product_data.spend, impressions |-> product_data.impressions,
     duration |-> product_data.duration, flags |-> product_data.flags]

\* An upsert that never takes an estimate over.
Higher_Never(new, old) == FALSE

\* if new_spend > (existing.estimated_monthly_ad_spend or 0)
Higher(new, old) == new > old

\* Returns the table after the upsert of one scraped product: a new row for
\* a new domain; on the row of a known domain each estimate is replaced
\* when the new one is higher, the flags and last_seen_advertising always.
upsert_discovered_product(prods, product_data, keyword_id, t) ==
    IF \E p \in prods : p.brand_domain = product_data.domain
    THEN LET existing == CHOOSE p \in prods :
                            /\ p.brand_domain = product_data.domain
                            /\ \A q \in prods :
                                    q.brand_domain = product_data.domain => p.id <= q.id
             kept(new, old) == IF Higher(new, old) THEN new ELSE old
         IN (prods \ {existing}) \cup
            {[existing EXCEPT
                !.spend = kept(product_data.spend, @),
                !.impressions = kept(product_data.impressions, @),
                !.duration = kept(product_data.duration, @),
                !.flags = product_data.flags,
                !.last_seen = t]}
    ELSE prods \cup {DiscoveredProduct(MaxId(prods) + 1, keyword_id, product_data, t)}

RECURSIVE save_to_db(_, _, _, _)
save_to_db(prods, new_product_dicts, keyword_id, t) ==
    IF new_product_dicts = <<>> THEN prods
    ELSE save_to_db(
            upsert_discovered_product(prods, Head(new_product_dicts), keyword_id, t),
            Tail(new_product_dicts), keyword_id, t)

\* recent_cutoff = datetime.now() - timedelta(minutes=5): the cutoff falls
\* into the last long pause, so a row is recent iff it was stored after it.
recent_cutoff(t) == t

\* select(DiscoveredProduct).where(first_discovered >= cutoff).limit(max_ads)
RecentProducts(prods, t, max_ads) ==
    LET rows == SortById({p \in prods : p.first_discovered >= recent_cutoff(t)})
    IN SubSeq(rows, 1, Min(max_ads, Len(rows)))

\* A loop over the whole list, without the slice.
EnrichSubset_All(recent_products) == recent_products

\* recent_products[:10]
EnrichSubset(recent_products) ==
    SubSeq(recent_products, 1, Min(EnrichCap, Len(recent_products)))

\* TrafficIntelligence(domain=, monthly_visits=, data_source=, updated_at=,
\* discovered_product_id=): a table class takes the keyword arguments that
\* name a column and drops the others. monthly_visits is a read-only property
\* over estimated_monthly_website_visits, not a column, so the new row holds
\* no visits.
TrafficIntelligence(product_id, visits, source) ==
    [product_id |-> product_id, monthly_visits |-> NoVisits, data_source |-> source]

\* With no row for the product a new one is added. With a row, the assignment
\* existing.monthly_visits = visits raises (the property has no setter); the
\* function's own except logs it and nothing is written.
save_traffic_data(rows, product_id, visits, source) ==
    IF \E i \in 1..Len(rows) : rows[i].product_id = product_id
    THEN rows
    ELSE Append(rows, TrafficIntelligence(product_id, visits, source))

RECURSIVE DeleteTraffic(_, _)
DeleteTraffic(rows, ids) ==
    IF rows = <<>> THEN <<>>
    ELSE IF Head(rows).product_id \in ids
         THEN DeleteTraffic(Tail(rows), ids)
         ELSE <<Head(rows)>> \o DeleteTraffic(Tail(rows), ids)

\* log_to_file appends to the in-memory buffer once the file write succeeded.
log_to_file(logs, k) ==
    [logs EXCEPT ![k] = IF @ = -1 THEN 1 ELSE @ + 1]

-----------------------------------------------------------------------------
(* Initial state: the process has just started, so the registry is empty;  *)
(* the tables are empty or, in the "main" scenario, may hold what an        *)
(* earlier process left: one keyword row and one product discovered for it. *)

InitialStores ==
    {[keywords |-> <<>>, products |-> {}]} \cup
    IF scenario = "main"
    THEN {[keywords |-> <<KeywordModel(k)>>,
           products |-> {DiscoveredProduct(1, 1, Ad(NDomains), 0)}]
          : k \in Keywords}
    ELSE {}

\* EventStreamManager.__init__: no connections, no snapshots, a free lock.
NoEntry == [present |-> FALSE, ids |-> <<>>]

NoSnapshot == [present |-> FALSE, status |-> "", started_at |-> 0, events |-> <<>>]

FreeLock == [holder |-> 0, waiters |-> <<>>]

EventStreamManager ==
    /\ connections = [k \in Keywords |-> NoEntry]
    /\ pipeline_state = [k \in Keywords |-> NoSnapshot]
    /\ lock = FreeLock
    /\ calls = [k \in Keywords |-> <<>>]

\* No wrapped function is being called.
NotCalled == [pc |-> "none"]

Init ==
    /\ scenario \in Scenarios
    /\ now = 0
    /\ running_tasks = [k \in Keywords |-> 0]
    /\ heap = <<>>
    /\ task_logs = [k \in Keywords |-> -1]
    /\ tasks = <<>>
    /\ \E store \in InitialStores :
            /\ keywords = store.keywords
            /\ products = store.products
    /\ traffic = <<>>
    /\ EventStreamManager
    /\ pubs = <<>>
    /\ streams = <<>>
    /\ retry = NotCalled
    /\ oplog = <<>>

-----------------------------------------------------------------------------
(* HTTP handlers *)

NewTask(k, m) ==
    [kw |-> k, max_ads |-> m, pc |-> "scheduled", st |-> 0, keyword_id |-> 0,
     existing |-> {}, scraped |-> <<>>, recent |-> <<>>, i |-> 0,
     enriched |-> 0, visits |-> NoVisits, source |-> "",
     lookups |-> <<>>, emitted |-> <<>>, failures |-> 0, s1failed |-> FALSE,
     session |-> FALSE]

\* The frame of run_pipeline is gone once it has returned or raised: its
\* locals are dropped, the record of what the run did (scraped, lookups,
\* emitted, failures, s1failed) is kept.
Finished(r, loc) ==
    [r EXCEPT !.pc = loc, !.st = 0, !.keyword_id = 0, !.existing = {},
              !.recent = <<>>, !.i = 0, !.enriched = 0,
              !.visits = NoVisits, !.source = "", !.session = FALSE]

\* A guard that only recognises the second running status.
AlreadyRunning_Step2Only(k) ==
    /\ Resident(k)
    /\ heap[running_tasks[k]].status \in {"running_step2"}

\* The duplicate-launch guard of POST /pipeline/run.
AlreadyRunning(k) ==
    /\ Resident(k)
    /\ heap[running_tasks[k]].status \in {"running_step1", "running_step2"}

\* What POST /pipeline/run answers: the entry registered under the keyword
\* when the handler returns.
run_response(k) == [code |-> 200, ref |-> running_tasks[k]]

Submit(k, m) ==
    /\ \/ /\ AlreadyRunning(k)
          /\ UNCHANGED <<running_tasks, heap, tasks>>
       \/ /\ ~AlreadyRunning(k)
          /\ Len(tasks) < TaskLimit
          /\ heap' = Append(heap, KeywordStatus(k, "running_step1"))
          /\ running_tasks' = [running_tasks EXCEPT ![k] = Len(heap) + 1]
          /\ tasks' = Append(tasks, NewTask(k, m))
    /\ UNCHANGED <<scenario, now, task_logs, keywords, products, traffic>>

\* get_keyword_status and GET /pipeline/status: a resident entry is returned;
\* otherwise the query on DiscoveredProduct.discovery_keyword, an attribute
\* the table class lacks, raises before anything is cached.
status_response(k) ==
    IF Resident(k) THEN [code |-> 200, ref |-> running_tasks[k]]
    ELSE [code |-> 500, ref |-> 0]

GetStatus(k) ==
    /\ status_response(k).code \in {200, 500}
    /\ UNCHANGED vars

\* The products whose keyword_id is the id of the Keyword row of k.
OwnProducts(kws, prods, k) ==
    {p \in prods : KeywordRowId(kws, k) # 0 /\ p.keyword_id = KeywordRowId(kws, k)}

\* The rows DELETE /results/{keyword} selects.
DeleteMatch(k) == {p \in products : p.keyword_id = KeywordNum(k)}

delete_response(k) ==
    IF DeleteMatch(k) = {} THEN [code |-> 404, ref |-> 0]
    ELSE [code |-> 200, ref |-> 0]

Delete(k) ==
    \/ /\ DeleteMatch(k) = {}
       /\ UNCHANGED vars
    \/ /\ DeleteMatch(k) # {}
       /\ traffic' = DeleteTraffic(traffic, {p.id : p \in DeleteMatch(k)})
       /\ products' = products \ DeleteMatch(k)
       /\ running_tasks' = [running_tasks EXCEPT ![k] = 0]
       /\ task_logs' = [task_logs EXCEPT ![k] = -1]
       /\ UNCHANGED <<scenario, now, heap, tasks, keywords>>

Tick ==
    /\ now < TimeLimit
    /\ now' = now + 1
    /\ UNCHANGED <<scenario, running_tasks, heap, task_logs, tasks,
                   keywords, products, traffic>>

-----------------------------------------------------------------------------
(* run_pipeline: one step per stretch of code that reads or writes shared   *)
(* state; an await that only publishes an event is taken together with the *)
(* code next to it.                                                         *)

Upd(t, r) == [tasks EXCEPT ![t] = r]

Emit(r, types) == [r EXCEPT !.emitted = @ \o types]

At(t, loc) == t \in 1..Len(tasks) /\ tasks[t].pc = loc

\* The product the stage-2 loop is working on.
Current(r) == EnrichSubset(r.recent)[r.i]

\* Next position of the stage-2 loop after item i has been dealt with.
NextItem(r) ==
    [r EXCEPT !.i = @ + 1,
              !.pc = IF r.i + 1 > Len(EnrichSubset(r.recent))
                     THEN "step2_done" ELSE "enrich"]

\* A run without the early return on an empty stage-1 result.
HasProducts_Always(scraped_products) == TRUE

\* if not scraped_products: ... return
HasProducts(scraped_products) == scraped_products # <<>>

\* if visits:
Truthy(visits) == visits # NoVisits /\ visits # 0

\* Lines 62-105: fetch the registry entry (KeyError when it was deleted),
\* mark it running, publish pipeline_start, write the start log entry, then
\* look the Keyword row up or create it. The run is then suspended in the
\* emit_log of line 97 or 105, inside the with get_session() block of line
\* 89: session tells that the block's session is open.
Start(t, log_ok) ==
    /\ At(t, "scheduled")
    /\ log_ok \in LogOutcomes
    /\ LET r == tasks[t]
           ref == running_tasks[r.kw]
       IN IF ~Resident(r.kw)
          THEN /\ log_ok
               /\ tasks' = Upd(t, [r EXCEPT !.pc = "h_emit"])
               /\ UNCHANGED <<heap, task_logs, keywords>>
          ELSE /\ heap' = [heap EXCEPT ![ref].status = "running_step1",
                                       ![ref].started_at = now]
               /\ IF log_ok
                  THEN /\ task_logs' = log_to_file(task_logs, r.kw)
                       /\ keywords' = KeywordRecord(keywords, r.kw)
                       /\ tasks' = Upd(t, Emit(
                            [r EXCEPT !.st = ref,
                                      !.keyword_id = KeywordRowId(keywords', r.kw),
                                      !.session = TRUE,
                                      !.pc = "scrape_read"],
                            <<"pipeline_start">>))
                  ELSE /\ tasks' = Upd(t, Emit([r EXCEPT !.st = ref, !.pc = "h_emit"],
                                               <<"pipeline_start">>))
                       /\ UNCHANGED <<task_logs, keywords>>
    /\ UNCHANGED <<scenario, now, running_tasks, products, traffic>>

\* Lines 97/105 and 108, then the first half of run_scraper in the worker
\* pool: the snapshot of the known domains.
ScrapeRead(t) ==
    /\ At(t, "scrape_read")
    /\ tasks' = Upd(t, Emit([tasks[t] EXCEPT
                                !.existing = read_existing_domains(products),
                                !.session = FALSE,
                                !.pc = "scrape_run"],
                            <<"log", "step1_start">>))
    /\ UNCHANGED <<scenario, now, running_tasks, heap, task_logs, keywords,
                   products, traffic>>

\* The sets of new domains one scrape may come back with.
ScrapeChoices(r) ==
    LET fresh == Universe \ r.existing
        sets == IF scenario = "cap"
                THEN {S \in {1..n : n \in 0..CapDomains} : S \subseteq fresh}
                ELSE SUBSET fresh
    IN {S \in sets : Cardinality(S) <= r.max_ads}

\* The second half of run_scraper (the Apify run and save_to_db), then lines
\* 127-139 or 135-137.
\*   "ok"       the run delivered the ads of the domains in S
\*   "neterror" a network or Apify failure, which run_scraper logs and turns
\*              into an empty result
\*   "raise"    an exception run_scraper does not catch (storage, raw dump)
ScrapeRun(t, outcome, S) ==
    /\ At(t, "scrape_run")
    /\ outcome \in ScrapeOutcomes
    /\ LET r == tasks[t]
           returned(list, failed) ==
               /\ heap' = [heap EXCEPT ![r.st].step1_products = Len(list)]
               /\ tasks' = Upd(t, Emit(
                    [r EXCEPT !.scraped = list, !.s1failed = failed,
                              !.pc = IF HasProducts(list) THEN "select" ELSE "zero_set"],
                    <<"step1_complete">>))
       IN \/ /\ outcome = "ok"
             /\ S \in ScrapeChoices(r)
             /\ products' = save_to_db(products, Ads(Ascending(S)), r.keyword_id, now)
             /\ returned(Ascending(S), FALSE)
          \/ /\ outcome = "neterror"
             /\ S = {}
             /\ returned(<<>>, TRUE)
             /\ UNCHANGED products
          \/ /\ outcome = "raise"
             /\ S = {}
             /\ tasks' = Upd(t, Emit([r EXCEPT !.s1failed = TRUE, !.pc = "h_emit"],
                                     <<"pipeline_error">>))
             /\ UNCHANGED <<heap, products>>
    /\ UNCHANGED <<scenario, now, running_tasks, task_logs, keywords, traffic>>

\* Lines 140-142.
ZeroSet(t) ==
    /\ At(t, "zero_set")
    /\ LET r == tasks[t] IN
       /\ heap' = [heap EXCEPT ![r.st].status = "completed",
                               ![r.st].completed_at = now]
       /\ tasks' = Upd(t, Emit([r EXCEPT !.pc = "zero_emit"], <<"log">>))
    /\ UNCHANGED <<scenario, now, running_tasks, task_logs, keywords,
                   products, traffic>>

\* Lines 143-147.
ZeroEmit(t) ==
    /\ At(t, "zero_emit")
    /\ tasks' = Upd(t, Finished(Emit(tasks[t], <<"pipeline_complete">>), "returned"))
    /\ UNCHANGED <<scenario, now, running_tasks, heap, task_logs, keywords,
                   products, traffic>>

\* Lines 150-165: the recent-products query, the log event, step2_start and
\* the loop entry.
Select(t) ==
    /\ At(t, "select")
    /\ LET r == tasks[t] IN
       tasks' = Upd(t, Emit(
            NextItem([r EXCEPT !.recent = RecentProducts(products, now, r.max_ads),
                               !.i = 0, !.enriched = 0]),
            <<"log", "step2_start">>))
    /\ UNCHANGED <<scenario, now, running_tasks, heap, task_logs, keywords,
                   products, traffic>>

\* Lines 167-198, one pass of the loop: step2_progress, get_traffic_data and
\* save_traffic_data in the worker pool, the result log and the counter.
\*   "visits"  a positive estimate
\*   "nodata"  the lookup answered without an estimate
\*   "failed"  the lookup failed; get_traffic_data catches it and returns
\*             (None, message)
\*   "raise"   the offloaded call itself raises: lines 196-198
\* save_ok = FALSE is a storage error, which save_traffic_data catches.
Enrich(t, outcome, save_ok) ==
    /\ At(t, "enrich")
    /\ outcome \in LookupOutcomes
    /\ save_ok \in SaveOutcomes
    /\ LET r == tasks[t]
           called == Emit([r EXCEPT !.lookups = Append(@, Current(r).brand_domain)],
                          <<"step2_progress">>)
           visits == IF outcome = "visits" THEN SomeVisits ELSE NoVisits
       IN IF outcome = "raise"
          THEN /\ save_ok
               /\ heap' = [heap EXCEPT ![r.st].errors = Append(@, "Traffic lookup failed")]
               /\ tasks' = Upd(t, Emit(NextItem([called EXCEPT !.failures = @ + 1]),
                                       <<"log">>))
               /\ UNCHANGED traffic
          ELSE /\ traffic' = IF save_ok
                             THEN save_traffic_data(traffic, Current(r).id, visits, outcome)
                             ELSE traffic
               /\ tasks' = Upd(t, Emit(NextItem(
                    [called EXCEPT
                        !.visits = visits,
                        !.source = outcome,
                        !.enriched = IF Truthy(visits) THEN @ + 1 ELSE @,
                        !.failures = IF outcome = "failed" \/ ~save_ok THEN @ + 1 ELSE @]),
                    <<"log">>))
               /\ UNCHANGED heap
    /\ UNCHANGED <<scenario, now, running_tasks, task_logs, keywords, products>>

\* Lines 200-212: step2_complete, then the final status.
Step2Done(t) ==
    /\ At(t, "step2_done")
    /\ LET r == tasks[t] IN
       /\ heap' = [heap EXCEPT ![r.st].step2_enriched = r.enriched,
                               ![r.st].completed_at = now,
                               ![r.st].duration_seconds = now - heap[r.st].started_at,
                               ![r.st].status = "completed"]
       /\ tasks' = Upd(t, Emit([r EXCEPT !.pc = "complete_emit"], <<"step2_complete">>))
    /\ UNCHANGED <<scenario, now, running_tasks, task_logs, keywords,
                   products, traffic>>

\* Lines 215-239: pipeline_complete, then the completion log entry.
CompleteEmit(t, log_ok) ==
    /\ At(t, "complete_emit")
    /\ log_ok \in LogOutcomes
    /\ LET r == Emit(tasks[t], <<"pipeline_complete">>) IN
       IF log_ok
       THEN /\ task_logs' = log_to_file(task_logs, r.kw)
            /\ tasks' = Upd(t, Finished(r, "returned"))
       ELSE /\ tasks' = Upd(t, [r EXCEPT !.pc = "h_emit"])
            /\ UNCHANGED task_logs
    /\ UNCHANGED <<scenario, now, running_tasks, heap, keywords, products, traffic>>

\* Lines 241-246: the top-level handler publishes pipeline_error.
HEmit(t) ==
    /\ At(t, "h_emit")
    /\ tasks' = Upd(t, Emit([tasks[t] EXCEPT !.pc = "h_set"], <<"pipeline_error">>))
    /\ UNCHANGED <<scenario, now, running_tasks, heap, task_logs, keywords,
                   products, traffic>>

\* A handler that sets the status but records no message.
MarkFailed_NoMessage(st, t) ==
    [st EXCEPT !.status = "failed",
               !.completed_at = t,
               !.duration_seconds = IF st.started_at # NoTime
                                    THEN t - st.started_at ELSE @]

\* Lines 249-254: what the handler writes into the entry registered under
\* the keyword.
MarkFailed(st, t) ==
    [st EXCEPT !.status = "failed",
               !.errors = Append(@, "Pipeline failed"),
               !.completed_at = t,
               !.duration_seconds = IF st.started_at # NoTime
                                    THEN t - st.started_at ELSE @]

\* Lines 248-265: mark the registry entry, then write the error log entry,
\* whose failure leaves run_pipeline through the handler.
HSet(t, log_ok) ==
    /\ At(t, "h_set")
    /\ log_ok \in LogOutcomes
    /\ LET r == tasks[t] IN
       /\ heap' = IF Resident(r.kw)
                  THEN [heap EXCEPT ![running_tasks[r.kw]] = MarkFailed(@, now)]
                  ELSE heap
       /\ IF log_ok
          THEN /\ task_logs' = log_to_file(task_logs, r.kw)
               /\ tasks' = Upd(t, Finished(r, "returned"))
          ELSE /\ tasks' = Upd(t, Finished(r, "escaped"))
               /\ UNCHANGED task_logs
    /\ UNCHANGED <<scenario, now, running_tasks, keywords, products, traffic>>

-----------------------------------------------------------------------------

Step(t) ==
    \/ \E log_ok \in LogOutcomes : Start(t, log_ok)
    \/ ScrapeRead(t)
    \/ /\ At(t, "scrape_run")
       /\ \/ \E S \in ScrapeChoices(tasks[t]) : ScrapeRun(t, "ok", S)
          \/ \E outcome \in {"neterror", "raise"} : ScrapeRun(t, outcome, {})
    \/ ZeroSet(t)
    \/ ZeroEmit(t)
    \/ Select(t)
    \/ \E outcome \in LookupOutcomes, save_ok \in SaveOutcomes : Enrich(t, outcome, save_ok)
    \/ Step2Done(t)
    \/ \E log_ok \in LogOutcomes : CompleteEmit(t, log_ok)
    \/ HEmit(t)
    \/ \E log_ok \in LogOutcomes : HSet(t, log_ok)

\* A start event that keeps the history of the run before.
UpdateState_KeepHistory(snapshot, event_type, seq) ==
    IF event_type = "pipeline_start"
    THEN [present |-> TRUE, status |-> "running", started_at |-> seq,
          events |-> snapshot.events]
    ELSE IF snapshot.present
    THEN [snapshot EXCEPT
            !.events = Append(@, [type |-> event_type, seq |-> seq]),
            !.status = CASE event_type = "pipeline_complete" -> "completed"
                         [] event_type = "pipeline_error" -> "failed"
                         [] OTHER -> @]
    ELSE snapshot

\* Lines 52-69 of broadcast_event: the snapshot after one more event.
UpdateState(snapshot, event_type, seq) ==
    IF event_type = "pipeline_start"
    THEN [present |-> TRUE, status |-> "running", started_at |-> seq, events |-> <<>>]
    ELSE IF snapshot.present
    THEN [snapshot EXCEPT
            !.events = Append(@, [type |-> event_type, seq |-> seq]),
            !.status = CASE event_type = "pipeline_complete" -> "completed"
                         [] event_type = "pipeline_error" -> "failed"
                         [] OTHER -> @]
    ELSE snapshot

\* The events of one step, in order: the keyword's snapshot follows them
\* also while nobody is connected.
RECURSIVE Broadcast(_, _)
Broadcast(snapshot, types) ==
    IF types = <<>> THEN snapshot
    ELSE Broadcast(UpdateState(snapshot, Head(types), 0), Tail(types))

\* What a step of task t publishes.
Published(t) ==
    SubSeq(tasks'[t].emitted, Len(tasks[t].emitted) + 1, Len(tasks'[t].emitted))

\* One step of run_pipeline together with the event bus's bookkeeping of
\* the events it publishes.
Run(t) ==
    /\ Step(t)
    /\ pipeline_state' = [pipeline_state EXCEPT
                            ![tasks[t].kw] = Broadcast(@, Published(t))]
    /\ UNCHANGED <<connections, lock, calls, pubs, streams, retry, oplog>>

Next ==
    \/ \E k \in SubmitKeywords, m \in AdsChoices : Submit(k, m) /\ UNCHANGED <<busvars, retry, oplog>>
    \/ \E k \in SubmitKeywords : GetStatus(k)
    \/ \E k \in SubmitKeywords : Delete(k) /\ UNCHANGED <<busvars, retry, oplog>>
    \/ Tick /\ UNCHANGED <<busvars, retry, oplog>>
    \/ \E t \in 1..Len(tasks) : Run(t)

Spec == Init /\ [][Next]_vars

\* The event loop resumes every run_pipeline task whose await is over, and
\* the scrape, the lookups and the saves return.
Fairness ==
    \A t \in 1..MaxTasks : WF_vars(Run(t))

Live == Spec /\ Fairness

-----------------------------------------------------------------------------
(* The event bus (EventStreamManager) and the stream endpoint               *)
(*                                                                         *)
(* A publisher is the PipelineEventEmitter of one run: it calls             *)
(* broadcast_event once per event of its script and waits for each call to *)
(* return. A stream is one event_generator. Both are named in the lock by  *)
(* a process id. An event carries the number of the broadcast_event call   *)
(* that published it, counted per keyword.                                 *)

QueueCap == 2       \* queue capacity (asyncio.Queue(maxsize=100) in the code)
NPubs == 2          \* emitters
NStreams == 2       \* stream requests

\* The events of a run. The first emitter belongs to a run that starts and
\* completes (shortened to its first, one middle and its last event); any
\* other to a run that finds its registry entry gone and publishes
\* pipeline_error only.
EmitScript(p) ==
    IF p = 1 THEN <<"pipeline_start", "log", "pipeline_complete">>
    ELSE <<"pipeline_error">>

\* The scripts emitter p may follow: the one above or, for the other
\* emitters, also a run that starts and fails at once.
EmitScripts(p) ==
    IF p = 1 THEN {EmitScript(p)}
    ELSE {EmitScript(p), <<"pipeline_start", "pipeline_error">>}

PubId(p) == p

StreamId(s) == NPubs + s

NoEvent == [type |-> "", seq |-> 0, status |-> "", history |-> <<>>]

\* _format_event(event_type, data)
format_event(event_type, seq) ==
    [type |-> event_type, seq |-> seq, status |-> "", history |-> <<>>]

\* A state_sync event that leaves the history out.
state_sync_NoHistory(snapshot) ==
    [type |-> "state_sync", seq |-> 0, status |-> snapshot.status,
     history |-> <<>>]

\* _format_event("state_sync", self._pipeline_state[keyword])
state_sync(snapshot) ==
    [type |-> "state_sync", seq |-> 0, status |-> snapshot.status,
     history |-> snapshot.events]

\* A manager whose queues start empty whatever the snapshot.
SyncItems_Never(snapshot) == <<>>

\* Lines 33-34 of add_connection: what a new queue starts with.
SyncItems(snapshot) ==
    IF snapshot.present THEN <<state_sync(snapshot)>> ELSE <<>>

\* asyncio.Lock.acquire returns at once when the lock is not held and nobody
\* waits for it; otherwise the caller joins the waiters.
CanAcquire(l) == l.holder = 0 /\ l.waiters = <<>>

\* asyncio.Lock.release: the first waiter is woken and is the next holder.
release(l) ==
    IF l.waiters = <<>> THEN FreeLock
    ELSE [holder |-> Head(l.waiters), waiters |-> Tail(l.waiters)]

\* queue.put goes through while the queue has room.
HasRoom(queue) == Len(queue) < QueueCap

\* A queue that hands out the newest item first.
put_Front(queue, item) == <<item>> \o queue

\* asyncio.Queue is first in, first out: put adds the item at the end.
put(queue, item) == Append(queue, item)

\* A put that waits for room without a time limit.
PutTimesOut_Never(queue) == FALSE

\* queue.put on a full queue waits; wait_for gives up after one second.
PutTimesOut(queue) == Len(queue) >= QueueCap

\* A broadcast that leaves the dead connections registered.
Cleanup_Keep(ids, dead) == ids

\* Lines 87-88 of broadcast_event: the dead connections are deleted.
Cleanup(ids, dead) == SelectSeq(ids, LAMBDA x : x \notin dead)


\* A removal that keeps the keyword's entry when it becomes empty.
remove_connection_KeepEntry(conns, k, id) ==
    IF conns[k].present /\ \E j \in 1..Len(conns[k].ids) : conns[k].ids[j] = id
    THEN [conns EXCEPT ![k].ids = SelectSeq(@, LAMBDA x : x # id)]
    ELSE conns

\* Lines 42-45 of remove_connection.
remove_connection(conns, k, id) ==
    IF conns[k].present /\ \E j \in 1..Len(conns[k].ids) : conns[k].ids[j] = id
    THEN LET rest == SelectSeq(conns[k].ids, LAMBDA x : x # id)
         IN [conns EXCEPT ![k] = IF rest = <<>> THEN NoEntry
                                  ELSE [present |-> TRUE, ids |-> rest]]
    ELSE conns

NewPub(k, script) ==
    [kw |-> k, script |-> script, pos |-> 1, pc |-> "idle", ev |-> NoEvent,
     idx |-> 0, dead |-> {}, delivered |-> {}, full_seen |-> {}]

\* A stream with what its client has been sent: got lists the events by
\* their numbers, those of a state_sync's history included; since is the
\* number of the start event of the snapshot found at add_connection.
NewStream ==
    [kw |-> "", pc |-> "new", queue |-> <<>>, last |-> 0, got_terminal |-> FALSE,
     got |-> <<>>, since |-> 0]

\* The numbers of the events an item of a queue carries: its own, or those
\* of the history of a state_sync event.
Carried(e) ==
    IF e.type = "state_sync"
    THEN [j \in 1..Len(e.history) |-> e.history[j].seq]
    ELSE <<e.seq>>

BusInit ==
    /\ scenario = "bus"
    /\ now = 0
    /\ running_tasks = [k \in Keywords |-> 0]
    /\ heap = <<>>
    /\ task_logs = [k \in Keywords |-> -1]
    /\ tasks = <<>>
    /\ keywords = <<>>
    /\ products = {}
    /\ traffic = <<>>
    /\ EventStreamManager
    /\ \E kw \in [1..NPubs -> Keywords] :
            /\ kw[1] = "1"
            /\ \E script \in [1..NPubs -> UNION {EmitScripts(p) : p \in 1..NPubs}] :
                    /\ \A p \in 1..NPubs : script[p] \in EmitScripts(p)
                    /\ pubs = [p \in 1..NPubs |-> NewPub(kw[p], script[p])]
    /\ streams = [s \in 1..NStreams |-> NewStream]
    /\ retry = NotCalled
    /\ oplog = <<>>

\* broadcast_event has returned: the emitter goes on to its next event.
Returned(r) ==
    [r EXCEPT !.pos = @ + 1,
              !.pc = IF r.pos + 1 > Len(r.script) THEN "done" ELSE "idle",
              !.ev = NoEvent, !.idx = 0, !.dead = {}, !.delivered = {},
              !.full_seen = {}]

\* Lines 50-76 of broadcast_event, run by publisher p (record r) once it
\* holds the lock l: the snapshot update, then either the start of the loop
\* over the keyword's connections or, with nobody connected, the return.
EnterSection(p, r, l) ==
    LET k == r.kw
        ids == connections[k].ids
    IN /\ pipeline_state' = [pipeline_state EXCEPT
                                ![k] = UpdateState(@, r.ev.type, r.ev.seq)]
       /\ IF connections[k].present /\ ids # <<>>
          THEN /\ pubs' = [pubs EXCEPT ![p] =
                        [r EXCEPT !.pc = "putting", !.idx = 1, !.dead = {},
                                  !.delivered = {},
                                  !.full_seen = IF PutTimesOut(streams[ids[1]].queue)
                                                THEN {ids[1]} ELSE {}]]
               /\ lock' = l
          ELSE /\ pubs' = [pubs EXCEPT ![p] = Returned(r)]
               /\ lock' = release(l)
       /\ UNCHANGED <<connections, streams>>

\* A call of broadcast_event (through one of the emit_* methods).
Publish(p) ==
    /\ pubs[p].pc = "idle"
    /\ LET k == pubs[p].kw
           n == Len(calls[k]) + 1
           r == [pubs[p] EXCEPT !.ev = format_event(pubs[p].script[pubs[p].pos], n)]
       IN /\ calls' = [calls EXCEPT ![k] = Append(@, r.ev.type)]
          /\ IF CanAcquire(lock)
             THEN EnterSection(p, r, [lock EXCEPT !.holder = PubId(p)])
             ELSE /\ pubs' = [pubs EXCEPT ![p] = [r EXCEPT !.pc = "waiting"]]
                  /\ lock' = [lock EXCEPT !.waiters = Append(@, PubId(p))]
                  /\ UNCHANGED <<connections, pipeline_state, streams>>

\* A publisher that waited for the lock is woken as its holder.
Granted(p) ==
    /\ pubs[p].pc = "waiting"
    /\ lock.holder = PubId(p)
    /\ EnterSection(p, pubs[p], lock)
    /\ UNCHANGED calls

\* Lines 76-88, one pass of the loop: the put into the queue of the next
\* connection, or its timeout when the queue is full; after the last
\* connection the dead ones are deleted, the lock is released and the call
\* returns.
Deliver(p) ==
    /\ pubs[p].pc = "putting"
    /\ LET r == pubs[p]
           k == r.kw
           ids == connections[k].ids
           id == ids[r.idx]
           ok == HasRoom(streams[id].queue)
           dead == IF ok THEN r.dead ELSE r.dead \cup {id}
           delivered == IF ok THEN r.delivered \cup {id} ELSE r.delivered
       IN /\ ok \/ PutTimesOut(streams[id].queue)
          /\ streams' = IF ok THEN [streams EXCEPT ![id].queue = put(@, r.ev)]
                        ELSE streams
          /\ IF r.idx < Len(ids)
             THEN /\ pubs' = [pubs EXCEPT ![p] =
                        [r EXCEPT !.idx = @ + 1, !.dead = dead, !.delivered = delivered,
                                  !.full_seen =
                                      IF PutTimesOut(streams'[ids[r.idx + 1]].queue)
                                      THEN @ \cup {ids[r.idx + 1]} ELSE @]]
                  /\ UNCHANGED <<connections, lock>>
             ELSE /\ connections' = [connections EXCEPT ![k].ids = Cleanup(@, dead)]
                  /\ lock' = release(lock)
                  /\ pubs' = [pubs EXCEPT ![p] = Returned(r)]
    /\ UNCHANGED <<pipeline_state, calls>>

\* Lines 28-37 of add_connection, run by stream s once it holds the lock l.
Register(s, k, l) ==
    /\ connections' = [connections EXCEPT
            ![k] = [present |-> TRUE, ids |-> Append(@.ids, s)]]
    /\ streams' = [streams EXCEPT ![s].kw = k, ![s].pc = "open",
                                  ![s].queue = SyncItems(pipeline_state[k]),
                                  ![s].since = IF pipeline_state[k].present
                                               THEN pipeline_state[k].started_at
                                               ELSE 0]
    /\ lock' = release(l)

\* GET /pipeline/stream/{keyword}: the generator starts and calls
\* add_connection.
Connect(s, k) ==
    /\ streams[s].pc = "new"
    /\ IF s = 1 THEN TRUE ELSE streams[s - 1].pc # "new"
    /\ IF CanAcquire(lock)
       THEN Register(s, k, [lock EXCEPT !.holder = StreamId(s)])
       ELSE /\ streams' = [streams EXCEPT ![s].kw = k, ![s].pc = "connecting"]
            /\ lock' = [lock EXCEPT !.waiters = Append(@, StreamId(s))]
            /\ UNCHANGED connections
    /\ UNCHANGED <<pipeline_state, calls, pubs>>

ConnectGranted(s) ==
    /\ streams[s].pc = "connecting"
    /\ lock.holder = StreamId(s)
    /\ Register(s, streams[s].kw, lock)
    /\ UNCHANGED <<pipeline_state, calls, pubs>>

\* Lines 82-83: the generator takes the next event off its queue and sends
\* it to the client.
Get(s) ==
    /\ streams[s].pc = "open"
    /\ streams[s].queue # <<>>
    /\ LET e == Head(streams[s].queue)
       IN streams' = [streams EXCEPT
            ![s].queue = Tail(@),
            ![s].last = IF e.type = "state_sync" THEN @ ELSE e.seq,
            ![s].got = @ \o Carried(e),
            ![s].got_terminal = @ \/ e.type \in {"pipeline_complete", "pipeline_error"}]
    /\ UNCHANGED <<connections, pipeline_state, lock, calls, pubs>>

\* Lines 84-86: nothing arrived for thirty seconds; a ping is sent and the
\* loop goes round.
Ping(s) ==
    /\ streams[s].pc = "open"
    /\ streams[s].queue = <<>>
    /\ UNCHANGED busvars

\* Lines 42-46 of remove_connection, run by stream s once it holds the lock.
Unregister(s, l) ==
    /\ connections' = remove_connection(connections, streams[s].kw, s)
    /\ streams' = [streams EXCEPT ![s] = [NewStream EXCEPT !.pc = "closed", !.kw = streams[s].kw]]
    /\ lock' = release(l)

\* Lines 77-78 and 93-95: the client has gone; the loop breaks and the
\* finally block calls remove_connection.
Disconnect(s) ==
    /\ streams[s].pc = "open"
    /\ IF CanAcquire(lock)
       THEN Unregister(s, [lock EXCEPT !.holder = StreamId(s)])
       ELSE /\ streams' = [streams EXCEPT ![s].pc = "closing"]
            /\ lock' = [lock EXCEPT !.waiters = Append(@, StreamId(s))]
            /\ UNCHANGED connections
    /\ UNCHANGED <<pipeline_state, calls, pubs>>

DisconnectGranted(s) ==
    /\ streams[s].pc = "closing"
    /\ lock.holder = StreamId(s)
    /\ Unregister(s, lock)
    /\ UNCHANGED <<pipeline_state, calls, pubs>>

BusNext ==
    \/ \E p \in 1..NPubs : Publish(p) /\ UNCHANGED <<pipevars, retry, oplog>>
    \/ \E p \in 1..NPubs : Granted(p) /\ UNCHANGED <<pipevars, retry, oplog>>
    \/ \E p \in 1..NPubs : Deliver(p) /\ UNCHANGED <<pipevars, retry, oplog>>
    \/ \E s \in 1..NStreams, k \in Keywords : Connect(s, k) /\ UNCHANGED <<pipevars, retry, oplog>>
    \/ \E s \in 1..NStreams : ConnectGranted(s) /\ UNCHANGED <<pipevars, retry, oplog>>
    \/ \E s \in 1..NStreams : Get(s) /\ UNCHANGED <<pipevars, retry, oplog>>
    \/ \E s \in 1..NStreams : Ping(s) /\ UNCHANGED <<pipevars, retry, oplog>>
    \/ \E s \in 1..NStreams : Disconnect(s) /\ UNCHANGED <<pipevars, retry, oplog>>
    \/ \E s \in 1..NStreams : DisconnectGranted(s) /\ UNCHANGED <<pipevars, retry, oplog>>

BusSpec == BusInit /\ [][BusNext]_vars

\* The event loop runs every coroutine that can go on: a woken lock waiter,
\* and the put or the timeout a publisher waits for. Nothing is assumed of
\* the clients: streams need not read and need not disconnect.
BusFairness ==
    /\ \A p \in 1..NPubs : WF_vars(Granted(p) /\ UNCHANGED <<pipevars, retry, oplog>>)
    /\ \A p \in 1..NPubs : WF_vars(Deliver(p) /\ UNCHANGED <<pipevars, retry, oplog>>)
    /\ \A s \in 1..NStreams : WF_vars(ConnectGranted(s) /\ UNCHANGED <<pipevars, retry, oplog>>)
    /\ \A s \in 1..NStreams : WF_vars(DisconnectGranted(s) /\ UNCHANGED <<pipevars, retry, oplog>>)

BusLive == BusSpec /\ BusFairness

\* With the stream generators running: an event waiting in the queue of an
\* open stream is taken off by the generator's loop.
StreamFairness ==
    \A s \in 1..NStreams : WF_vars(Get(s) /\ UNCHANGED <<pipevars, retry, oplog>>)

StreamLive == BusLive /\ StreamFairness

-----------------------------------------------------------------------------
(* The retry decorators (exponential_backoff, async_exponential_backoff) *)

\* Largest max_retries and largest delay parameter of a decorated function.
MaxRetries == 3
MaxDelay == 3

\* exponential_base values; 2 is the default.
Bases == {1, 2}

\* What one invocation of the wrapped function does: return a value, raise
\* one of retry_exceptions, or raise another exception.
Outcomes == {"ok", "fail", "other"}

\* Delays are in seconds, waits in hundredths of a second. With jitter the
\* wait is the delay times 0.5 + random.random(), a factor in [0.5, 1.5).
Jitter(jitter) == IF jitter THEN {50, 100, 149} ELSE {100}

NoError == [type |-> "none", last_exception |-> 0]

\* An except clause that catches every exception.
Designated_All(outcome) == outcome # "ok"

\* except retry_exceptions: the exceptions the wrapper retries on.
Designated(outcome) == outcome = "fail"

\* A range that stops one short.
range_OneLess(stop) == 0..(stop - 2)

\* Python's range(stop).
range(stop) == 0..(stop - 1)

\* A decorated function that has not been called yet. plan[n] is what the
\* n-th invocation of the wrapped function does.
RetryInit ==
    /\ scenario = "retry"
    /\ now = 0
    /\ running_tasks = [k \in Keywords |-> 0]
    /\ heap = <<>>
    /\ task_logs = [k \in Keywords |-> -1]
    /\ tasks = <<>>
    /\ keywords = <<>>
    /\ products = {}
    /\ traffic = <<>>
    /\ EventStreamManager
    /\ pubs = <<>>
    /\ streams = <<>>
    /\ \E max_retries \in 0..MaxRetries, initial_delay \in 1..MaxDelay,
          max_delay \in 1..MaxDelay, exponential_base \in Bases,
          jitter \in BOOLEAN, plan \in [1..(MaxRetries + 1) -> Outcomes] :
            retry = [pc |-> "ready", max_retries |-> max_retries,
                     initial_delay |-> initial_delay, max_delay |-> max_delay,
                     exponential_base |-> exponential_base, jitter |-> jitter,
                     plan |-> plan, attempt |-> 0, delay |-> 0,
                     last_exception |-> 0, calls |-> 0, waits |-> <<>>,
                     value |-> 0, error |-> NoError]
    /\ oplog = <<>>

\* The wrapper is called: lines 45-46, and the loop starts.
wrapper ==
    /\ retry.pc = "ready"
    /\ retry' = [retry EXCEPT !.pc = "loop", !.delay = retry.initial_delay,
                              !.last_exception = 0, !.attempt = 0]

\* One pass of the loop of lines 48-98: the wrapped function is invoked;
\* its value is returned, or its exception is not one of retry_exceptions
\* and goes to the caller, or the last attempt raises RetryError, or the
\* wrapper sleeps and the delay grows. Lines 101-104 after the loop.
Iterate ==
    /\ retry.pc = "loop"
    /\ IF retry.attempt \in range(retry.max_retries + 1)
       THEN LET n == retry.calls + 1
                outcome == retry.plan[n]
            IN CASE outcome = "ok" ->
                        retry' = [retry EXCEPT !.pc = "returned", !.calls = n,
                                               !.value = n]
                 [] ~Designated(outcome) ->
                        retry' = [retry EXCEPT !.pc = "raised", !.calls = n,
                                    !.error = [type |-> outcome, last_exception |-> n]]
                 [] retry.attempt = retry.max_retries ->
                        retry' = [retry EXCEPT !.pc = "raised", !.calls = n,
                                    !.last_exception = n,
                                    !.error = [type |-> "RetryError", last_exception |-> n]]
                 [] OTHER ->
                        \E factor \in Jitter(retry.jitter) :
                            retry' = [retry EXCEPT
                                        !.calls = n,
                                        !.last_exception = n,
                                        !.waits = Append(@, retry.delay * factor),
                                        !.delay = Min(@ * retry.exponential_base,
                                                      retry.max_delay),
                                        !.attempt = @ + 1]
       ELSE retry' = [retry EXCEPT !.pc = "raised",
                        !.error = [type |-> "RetryError",
                                   last_exception |-> retry.last_exception]]

RetryNext ==
    \/ wrapper /\ UNCHANGED <<pipevars, busvars, oplog>>
    \/ Iterate /\ UNCHANGED <<pipevars, busvars, oplog>>

RetrySpec == RetryInit /\ [][RetryNext]_vars

-----------------------------------------------------------------------------
(* The storage upserts called directly: save_to_db with one product          *)
(* (upsert_discovered_product and the commit) and save_traffic_data.         *)

\* Calls in one behaviour, and the largest estimate of an ad.
MaxOps == 3
MaxEstimate == 2

ProductInputs ==
    {ProductData(domain, spend, impressions, duration, flags) :
        domain \in 1..NDomains, spend \in 1..MaxEstimate,
        impressions \in 1..MaxEstimate, duration \in 1..MaxEstimate,
        flags \in BOOLEAN}

\* The (visits, source) pairs a lookup may hand to save_traffic_data.
TrafficInputs ==
    {[visits |-> SomeVisits, source |-> "api"],
     [visits |-> SomeVisits + SomeVisits, source |-> "html"],
     [visits |-> NoVisits, source |-> "error"]}

NoInput == [visits |-> NoVisits, source |-> ""]

NoProduct == ProductData(0, 0, 0, 0, FALSE)

StoreInit ==
    /\ scenario = "store"
    /\ now = 0
    /\ running_tasks = [k \in Keywords |-> 0]
    /\ heap = <<>>
    /\ task_logs = [k \in Keywords |-> -1]
    /\ tasks = <<>>
    /\ keywords = <<>>
    /\ products = {}
    /\ traffic = <<>>
    /\ EventStreamManager
    /\ pubs = <<>>
    /\ streams = <<>>
    /\ retry = NotCalled
    /\ oplog = <<>>

\* save_to_db([product_data]) at time now; the clock moves on.
SaveProduct(product_data) ==
    /\ Len(oplog) < MaxOps
    /\ products' = save_to_db(products, <<product_data>>, 0, now)
    /\ now' = now + 1
    /\ oplog' = Append(oplog, [op |-> "product", product_data |-> product_data,
                               product_id |-> 0, pair |-> NoInput, at |-> now])
    /\ UNCHANGED <<scenario, running_tasks, heap, task_logs, tasks, keywords, traffic>>

\* save_traffic_data(domain, product_id, visits, source).
SaveTraffic(product_id, pair) ==
    /\ Len(oplog) < MaxOps
    /\ traffic' = save_traffic_data(traffic, product_id, pair.visits, pair.source)
    /\ now' = now + 1
    /\ oplog' = Append(oplog, [op |-> "traffic", product_data |-> NoProduct,
                               product_id |-> product_id, pair |-> pair, at |-> now])
    /\ UNCHANGED <<scenario, running_tasks, heap, task_logs, tasks, keywords, products>>

StoreNext ==
    \/ \E product_data \in ProductInputs :
            SaveProduct(product_data) /\ UNCHANGED <<busvars, retry>>
    \/ \E product_id \in 1..NDomains, pair \in TrafficInputs :
            SaveTraffic(product_id, pair) /\ UNCHANGED <<busvars, retry>>

StoreSpec == StoreInit /\ [][StoreNext]_vars

-----------------------------------------------------------------------------
(* Two stage-1 scrapes in the worker threads of the default executor       *)
(* (pipeline_service.py 115-125). Each thread runs run_scraper and, in it,   *)
(* save_to_db on a session of its own: a query sees the committed rows,     *)
(* what the session added or changed reaches the table at its commit.       *)

\* Landing pages per domain.
NPaths == 2

NoRow == 0

Worker(keyword_id) ==
    [keyword_id |-> keyword_id, pc |-> "read", existing |-> {},
     todo |-> <<>>, found |-> NoRow, added |-> <<>>, changed |-> <<>>]

WorkerInit ==
    /\ scenario = "workers"
    /\ now = 0
    /\ running_tasks = [k \in Keywords |-> 0]
    /\ heap = <<>>
    /\ task_logs = [k \in Keywords |-> -1]
    /\ tasks = <<Worker(1), Worker(2)>>
    /\ keywords = <<>>
    /\ products = {}
    /\ traffic = <<>>
    /\ EventStreamManager
    /\ pubs = <<>>
    /\ streams = <<>>
    /\ retry = NotCalled
    /\ oplog = <<>>

\* run_scraper line 505.
ReadExisting(w) ==
    /\ tasks[w].pc = "read"
    /\ tasks' = [tasks EXCEPT ![w].existing = read_existing_domains(products),
                              ![w].pc = "scrape"]
    /\ UNCHANGED products

\* run_scraper lines 506-757 up to the call of save_to_db: the ads of the
\* domains in S, none of them known at line 505, one per domain (line 725),
\* each with the landing page the keyword's ad points to.
Scraped(w, S, path) ==
    /\ tasks[w].pc = "scrape"
    /\ S \subseteq (1..NDomains) \ tasks[w].existing
    /\ LET list == [i \in 1..Cardinality(S) |-> LandingPage(Ascending(S)[i], path)]
       IN tasks' = [tasks EXCEPT ![w].todo = list,
                                 ![w].pc = IF list = <<>> THEN "done" ELSE "select"]
    /\ UNCHANGED products

\* upsert_discovered_product line 153: the query for the domain's row.
UpsertSelect(w) ==
    /\ tasks[w].pc = "select"
    /\ LET brand_domain == normalize_domain(Head(tasks[w].todo).product_page_url)
           rows == {p \in products : p.brand_domain = brand_domain}
       IN tasks' = [tasks EXCEPT
                        ![w].found = IF rows = {} THEN NoRow
                                     ELSE (CHOOSE p \in rows :
                                              \A q \in rows : p.id <= q.id).id,
                        ![w].pc = "write"]
    /\ UNCHANGED products

\* upsert_discovered_product lines 155-255: the found row is changed in the
\* session, or a new one is added to it (line 253).
UpsertWrite(w) ==
    /\ tasks[w].pc = "write"
    /\ LET r == tasks[w]
           product_data == Head(r.todo)
       IN tasks' = [tasks EXCEPT
                        ![w].added = IF r.found = NoRow
                                     THEN Append(@, product_data) ELSE @,
                        ![w].changed = IF r.found = NoRow THEN @
                                       ELSE Append(@, [id |-> r.found,
                                                       product_data |-> product_data]),
                        ![w].found = NoRow,
                        ![w].todo = Tail(@),
                        ![w].pc = IF Tail(r.todo) = <<>> THEN "commit" ELSE "select"]
    /\ UNCHANGED products

\* The table after the session's changes to found rows.
RECURSIVE Changed(_, _, _)
Changed(prods, changed, t) ==
    IF changed = <<>> THEN prods
    ELSE LET c == Head(changed)
             row == {p \in prods : p.id = c.id}
         IN Changed((prods \ row)
                        \cup upsert_discovered_product(row, c.product_data, 0, t),
                    Tail(changed), t)

\* The table after the session's new rows.
RECURSIVE Added(_, _, _, _)
Added(prods, added, keyword_id, t) ==
    IF added = <<>> THEN prods
    ELSE Added(prods \cup {DiscoveredProduct(MaxId(prods) + 1, keyword_id,
                                             Head(added), t)},
               Tail(added), keyword_id, t)

\* save_to_db line 295: the commit. A new row whose product_page_url is in
\* the table breaks the unique index (models.py 48): the commit raises and
\* get_session rolls back (db.py 62-64).
Commit(w) ==
    /\ tasks[w].pc = "commit"
    /\ LET r == tasks[w]
           clash == \E i \in 1..Len(r.added), p \in products :
                        p.product_page_url = r.added[i].product_page_url
       IN IF clash
          THEN /\ tasks' = [tasks EXCEPT ![w].pc = "raised"]
               /\ UNCHANGED products
          ELSE /\ products' = Added(Changed(products, r.changed, now),
                                    r.added, r.keyword_id, now)
               /\ tasks' = [tasks EXCEPT ![w].pc = "done"]

WorkerNext ==
    \/ \E w \in 1..2 :
            ReadExisting(w)
            /\ UNCHANGED <<scenario, now, running_tasks, heap, task_logs,
                           keywords, traffic, busvars, retry, oplog>>
    \/ \E w \in 1..2, S \in SUBSET (1..NDomains), path \in 1..NPaths :
            Scraped(w, S, path)
            /\ UNCHANGED <<scenario, now, running_tasks, heap, task_logs,
                           keywords, traffic, busvars, retry, oplog>>
    \/ \E w \in 1..2 :
            UpsertSelect(w)
            /\ UNCHANGED <<scenario, now, running_tasks, heap, task_logs,
                           keywords, traffic, busvars, retry, oplog>>
    \/ \E w \in 1..2 :
            UpsertWrite(w)
            /\ UNCHANGED <<scenario, now, running_tasks, heap, task_logs,
                           keywords, traffic, busvars, retry, oplog>>
    \/ \E w \in 1..2 :
            Commit(w)
            /\ UNCHANGED <<scenario, now, running_tasks, heap, task_logs,
                           keywords, traffic, busvars, retry, oplog>>

WorkerSpec == WorkerInit /\ [][WorkerNext]_vars

-----------------------------------------------------------------------------
(* Properties *)

\* C1: a POST /pipeline/run for a keyword whose registered run has not
\* reached a terminal status is answered with that same registry entry, which
\* is in one of the two running statuses; the registry, the status objects
\* and the set of launched tasks are left as they were.
C1_DuplicateSubmitReturnsSameRun ==
    [][\A k \in Keywords :
          (/\ Resident(k)
           /\ heap[running_tasks[k]].status \notin Terminal
           /\ \E m \in AdsChoices : Submit(k, m))
          => /\ running_tasks' = running_tasks
             /\ heap' = heap
             /\ tasks' = tasks
             /\ run_response(k)' = run_response(k)
             /\ heap[run_response(k).ref].status
                    \in {"running_step1", "running_step2"}]_vars

\* A second submission can arrive in the middle of a run: the keyword's entry
\* is running, its task is inside the stage-2 loop, and another task could
\* still be launched.
C1_Witness ==
    \E k \in Keywords, t \in 1..Len(tasks) :
        /\ Resident(k)
        /\ heap[running_tasks[k]].status = "running_step1"
        /\ tasks[t].kw = k
        /\ tasks[t].pc = "enrich"
        /\ tasks[t].st = running_tasks[k]
        /\ Len(tasks) < TaskLimit

\* C2: in every reachable state at most one run_pipeline task per keyword has
\* started and not yet finished.
C2_OneTaskPerKeyword ==
    \A t1, t2 \in 1..Len(tasks) :
        (t1 # t2 /\ tasks[t1].kw = tasks[t2].kw)
        => ~ /\ tasks[t1].pc \notin {"scheduled", "returned", "escaped"}
             /\ tasks[t2].pc \notin {"scheduled", "returned", "escaped"}

\* C3: a run whose stage 1 came back with no products writes no status until
\* it writes COMPLETED, which is the next thing it does, then publishes
\* pipeline_complete and returns; it never enters stage 2 and never calls the
\* traffic lookup, and step2_enriched of its status object is 0 (for a status
\* object no other task is attached to).
C3_ZeroResultsCompleteDirectly ==
    [][\A t \in 1..Len(tasks) :
          LET r == tasks[t]
              r2 == tasks'[t]
              sole == \A u \in 1..Len(tasks) : u # t => tasks[u].st # r.st
          IN /\ (r.pc = "scrape_run" /\ r2.pc \notin {"scrape_run", "h_emit"}
                    /\ r2.scraped = <<>>)
                => /\ r2.pc = "zero_set"
                   /\ heap'[r.st].status = heap[r.st].status
                   /\ r2.lookups = <<>>
             /\ (r.pc = "zero_set" /\ r2.pc # "zero_set")
                => /\ r2.pc = "zero_emit"
                   /\ heap'[r.st].status = "completed"
                   /\ sole => heap'[r.st].step2_enriched = 0
                   /\ r2.lookups = <<>>
             /\ (r.pc = "zero_emit" /\ r2.pc # "zero_emit")
                => /\ r2.pc = "returned"
                   /\ r2.lookups = <<>>
                   /\ r2.emitted[Len(r2.emitted)] = "pipeline_complete"]_vars

\* A run that found nothing has returned.
C3_Witness ==
    \E t \in 1..Len(tasks) :
        /\ tasks[t].pc = "returned"
        /\ tasks[t].scraped = <<>>
        /\ tasks[t].lookups = <<>>
        /\ \E j \in 1..Len(tasks[t].emitted) : tasks[t].emitted[j] = "step1_complete"
        /\ tasks[t].emitted[Len(tasks[t].emitted)] = "pipeline_complete"

C5_NothingEscapes ==
    \A t \in 1..Len(tasks) : tasks[t].pc # "escaped"

\* C6: once the status object of a run shows COMPLETED or FAILED, no later
\* step of that run's task changes the status.
C6_TerminalStatusKept ==
    [][\A t \in 1..Len(tasks) :
          LET r == tasks[t]
          IN (/\ r.st # 0
              /\ heap[r.st].status \in Terminal
              /\ tasks'[t] # r)
             => heap'[r.st].status = heap[r.st].status]_vars

\* C7: while a run is inside the stage-2 loop its status is RUNNING_STAGE2.
C7_Stage2StatusDuringLoop ==
    \A t \in 1..Len(tasks) :
        tasks[t].pc = "enrich" => heap[tasks[t].st].status = "running_step2"

\* C8: every lookup or persistence failure of the stage-2 loop has put one
\* message on the run's error list; the loop goes on to the remaining
\* products and the run then shows COMPLETED.
C8_ItemFailuresRecorded ==
    \A t \in 1..Len(tasks) :
        LET r == tasks[t]
        IN /\ r.pc \in {"enrich", "step2_done"}
              => Len(heap[r.st].errors) >= r.failures
           /\ r.pc = "step2_done"
              => Len(r.lookups) = Len(EnrichSubset(r.recent))

\* C9: a run whose stage 1 failed as a whole does not show COMPLETED and
\* never calls the traffic lookup.
C9_Stage1FailureFails ==
    \A t \in 1..Len(tasks) :
        LET r == tasks[t]
        IN r.s1failed
           => /\ r.lookups = <<>>
              /\ r.st # 0 => heap[r.st].status # "completed"

\* C10: a run calls the traffic lookup at most min(10, max_ads) times, and
\* the calls go to the first products of the selected list, in list order.
C10_LookupsBounded ==
    \A t \in 1..Len(tasks) :
        LET r == tasks[t]
        IN /\ Len(r.lookups) <= Min(EnrichCap, r.max_ads)
           /\ r.pc \in {"enrich", "step2_done"}
              => /\ Len(r.lookups) <= Len(r.recent)
                 /\ r.lookups = [j \in 1..Len(r.lookups) |-> r.recent[j].brand_domain]
           /\ r.pc = "enrich" => Len(r.lookups) = r.i - 1
           /\ r.pc = "step2_done"
              => Len(r.lookups) = Min(EnrichCap, Len(r.recent))

\* The loop has stopped after ten lookups although more products were
\* selected.
C10_Witness ==
    \E t \in 1..Len(tasks) :
        /\ tasks[t].pc = "step2_done"
        /\ Len(tasks[t].recent) > EnrichCap
        /\ Len(tasks[t].lookups) = EnrichCap

\* C11: every product whose traffic a run looks up in stage 2 is one of the
\* products that stage 1 of the same run discovered.
C11_EnrichedAreOwn ==
    \A t \in 1..Len(tasks) :
        \A j \in 1..Len(tasks[t].lookups) :
            \E i \in 1..Len(tasks[t].scraped) :
                tasks[t].scraped[i] = tasks[t].lookups[j]

\* C12: a run whose stage 1 returned n products, 1 <= n <= 10, has made
\* exactly n lookups when stage 2 is over, and its entry shows COMPLETED,
\* step1_products = n, 0 <= step2_enriched <= n and a duration.
C12_SmallRunLooksUpEach ==
    \A t \in 1..Len(tasks) :
        LET r == tasks[t]
            n == Len(r.scraped)
        IN (r.pc = "complete_emit" /\ n >= 1 /\ n <= EnrichCap)
           => /\ Len(r.lookups) = n
              /\ heap[r.st].status = "completed"
              /\ heap[r.st].step1_products = n
              /\ heap[r.st].step2_enriched \in 0..n
              /\ heap[r.st].duration_seconds # NoTime

\* C13: once the loop of a run in which no lookup and no save has failed has
\* dealt with a product, the traffic table holds exactly one row for it, and
\* the row of the product dealt with last holds the outcome of its lookup
\* (the visits found, or none).
C13_OutcomeStoredOnce ==
    \A t \in 1..Len(tasks) :
        LET r == tasks[t]
            done == IF r.pc \in {"enrich", "step2_done"} /\ r.failures = 0
                    THEN r.i - 1 ELSE 0
        IN /\ \A j \in 1..done :
                Cardinality({l \in 1..Len(traffic) :
                                traffic[l].product_id = r.recent[j].id}) = 1
           /\ done >= 1
              => \E l \in 1..Len(traffic) :
                    /\ traffic[l].product_id = r.recent[done].id
                    /\ traffic[l].monthly_visits = r.visits

\* C14 as stated: a stream that connects to a keyword whose start event has
\* been published finds one item in its new queue, a state_sync event, and
\* the history of that event contains the start event.
C14_SyncHistoryHoldsStart ==
    [][\A s \in 1..NStreams :
          (/\ streams[s].pc \in {"new", "connecting"}
           /\ streams'[s].pc = "open"
           /\ pipeline_state[streams'[s].kw].present)
          => LET q == streams'[s].queue
             IN /\ Len(q) = 1
                /\ q[1].type = "state_sync"
                /\ \E j \in 1..Len(q[1].history) :
                        q[1].history[j].type = "pipeline_start"]_vars

\* C14: a stream that connects to a keyword whose start event has been
\* published finds one item in its new queue, before any live event: a
\* state_sync event carrying the snapshot that the start event initialised.
\* Its history is the ordered list of the events published after that start
\* and does not contain the start event itself.
C14_SyncCarriesSnapshot ==
    [][\A s \in 1..NStreams :
          (/\ streams[s].pc \in {"new", "connecting"}
           /\ streams'[s].pc = "open"
           /\ pipeline_state[streams'[s].kw].present)
          => LET q == streams'[s].queue
                 snapshot == pipeline_state[streams'[s].kw]
             IN /\ Len(q) = 1
                /\ q[1].type = "state_sync"
                /\ q[1].status = snapshot.status
                /\ q[1].history = snapshot.events
                /\ snapshot.started_at >= 1
                /\ \A j \in 1..Len(q[1].history) :
                        /\ q[1].history[j].type # "pipeline_start"
                        /\ q[1].history[j].seq = snapshot.started_at + j]_vars

\* A stream that joined late holds a state_sync event with a history.
C14_Witness ==
    \E s \in 1..NStreams :
        /\ streams[s].pc = "open"
        /\ streams[s].queue # <<>>
        /\ streams[s].queue[1].type = "state_sync"
        /\ streams[s].queue[1].history # <<>>

\* C15: the live events a stream has in its queue are in the order of the
\* broadcast_event calls that published them, each once, and all of them
\* were published after the last one the stream has taken off the queue.
C15_QueueInCallOrder ==
    \A s \in 1..NStreams :
        LET q == SelectSeq(streams[s].queue, LAMBDA e : e.type # "state_sync")
        IN \A i \in 1..Len(q) :
                /\ q[i].seq > streams[s].last
                /\ \A j \in 1..Len(q) : i < j => q[i].seq < q[j].seq

\* A stream that has read one live event holds two more, while two emitters
\* publish for its keyword.
C15_Witness ==
    \E s \in 1..NStreams :
        /\ streams[s].last > 0
        /\ Len(streams[s].queue) = 2
        /\ \A i \in 1..2 : streams[s].queue[i].type # "state_sync"
        /\ \A p \in 1..2 : pubs[p].kw = streams[s].kw

\* C16: every call of broadcast_event returns, whether or not the streams
\* read their queues.
C16_PublishReturns ==
    \A p \in 1..NPubs :
        (pubs[p].pc \in {"waiting", "putting"}) ~> (pubs[p].pc \in {"idle", "done"})

\* A publisher is in front of a full queue.
C16_Witness ==
    \E p \in 1..NPubs :
        /\ pubs[p].pc = "putting"
        /\ PutTimesOut(streams[connections[pubs[p].kw].ids[pubs[p].idx]].queue)

C18_RemoveExactlyOne ==
    [][\A s \in 1..NStreams :
          (streams[s].pc \in {"open", "closing"} /\ streams'[s].pc = "closed")
          => LET k == streams[s].kw
                 ids == connections[k].ids
                 rest == SelectSeq(ids, LAMBDA x : x # s)
             IN /\ IF \E j \in 1..Len(ids) : ids[j] = s
                   THEN /\ connections'[k].ids = rest
                        /\ connections'[k].present = (rest # <<>>)
                   ELSE connections'[k] = connections[k]
                /\ \A k2 \in Keywords \ {k} : connections'[k2] = connections[k2]
                /\ pipeline_state' = pipeline_state
                /\ \A s2 \in 1..NStreams \ {s} : streams'[s2] = streams[s2]]_vars

\* The last stream of a keyword has closed: the keyword's entry is gone, its
\* snapshot is kept, and a stream of the other keyword is still registered.
C18_Witness ==
    \E s, s2 \in 1..NStreams :
        /\ streams[s].pc = "closed"
        /\ ~connections[streams[s].kw].present
        /\ pipeline_state[streams[s].kw].present
        /\ streams[s2].pc = "open"
        /\ streams[s2].kw # streams[s].kw
        /\ connections[streams[s2].kw].ids = <<s2>>

\* C19: a stream that has sent the run's pipeline_complete or pipeline_error
\* event to its client ends.
C19_StreamEnds ==
    \A s \in 1..NStreams :
        (streams[s].pc = "open" /\ streams[s].got_terminal) ~> (streams[s].pc = "closed")

\* C20: a wrapped function that raises one of retry_exceptions k times and
\* then returns a value, with k <= max_retries, is invoked k + 1 times and
\* the wrapper returns that value; a wrapped function that raises one of
\* retry_exceptions every time is invoked max_retries + 1 times and the
\* wrapper raises RetryError carrying the exception of the last invocation.
C20_RetriesThenResult ==
    LET r == retry
        called == r.pc \in {"loop", "returned", "raised"}
        done == r.pc \in {"returned", "raised"}
        FailsThenSucceeds(k) == /\ \A n \in 1..k : r.plan[n] = "fail"
                                /\ r.plan[k + 1] = "ok"
        AlwaysFails == \A n \in 1..Len(r.plan) : r.plan[n] = "fail"
    IN called =>
        /\ \A k \in 0..r.max_retries :
              FailsThenSucceeds(k) =>
                /\ r.calls <= k + 1
                /\ done <=> r.calls = k + 1
                /\ done => r.pc = "returned" /\ r.value = k + 1
        /\ AlwaysFails =>
                /\ r.calls <= r.max_retries + 1
                /\ done <=> r.calls = r.max_retries + 1
                /\ done => /\ r.pc = "raised"
                           /\ r.error = [type |-> "RetryError",
                                         last_exception |-> r.max_retries + 1]

\* A call with max_retries = 3 has returned the value of the third
\* invocation, after two failures.
C20_Witness ==
    /\ retry.pc = "returned"
    /\ retry.max_retries = 3
    /\ retry.calls = 3
    /\ retry.value = 3
    /\ Len(retry.waits) = 2

\* C21: when an invocation of the wrapped function raises an exception that
\* is not one of retry_exceptions, that exception itself reaches the caller:
\* the function is not invoked again, the wrapper does not sleep after it,
\* and no RetryError is raised. When it is the first invocation, the
\* function has been invoked once and the wrapper has not slept at all.
C21_OtherErrorPropagates ==
    LET r == retry
        called == r.pc \in {"loop", "returned", "raised"}
        done == r.pc \in {"returned", "raised"}
        FailsThenOther(k) == /\ \A n \in 1..k : r.plan[n] = "fail"
                             /\ r.plan[k + 1] = "other"
    IN called =>
        \A k \in 0..r.max_retries :
            FailsThenOther(k) =>
                /\ r.calls <= k + 1
                /\ Len(r.waits) <= k
                /\ done <=> r.calls = k + 1
                /\ done => /\ r.pc = "raised"
                           /\ r.error = [type |-> "other", last_exception |-> k + 1]
                           /\ Len(r.waits) = k

\* The first invocation has raised an exception that is not retried, with
\* retries left.
C21_Witness ==
    /\ retry.pc = "raised"
    /\ retry.plan[1] = "other"
    /\ retry.error.type = "other"
    /\ retry.calls = 1
    /\ retry.waits = <<>>
    /\ retry.max_retries >= 1

\* C22 as stated: with jitter off, the wait before retry number n (from 0)
\* is min(initial_delay * exponential_base^n, max_delay), so no wait is
\* longer than max_delay, and the wrapper does not sleep after the attempt
\* that raises RetryError.
C22_WaitsFollowFormula ==
    LET r == retry
    IN (r.pc \in {"loop", "returned", "raised"} /\ ~r.jitter) =>
        /\ \A i \in 1..Len(r.waits) :
              /\ r.waits[i] = 100 * Min(r.initial_delay * r.exponential_base ^ (i - 1),
                                        r.max_delay)
              /\ r.waits[i] <= 100 * r.max_delay
        /\ Len(r.waits) <= r.max_retries
        /\ Len(r.waits) < r.calls \/ r.pc = "loop"

\* C23 as stated: GET /pipeline/status for a keyword that has no registry
\* entry is answered from the tables: with products stored for the keyword
\* the answer is a COMPLETED entry, which is then cached in the registry, and
\* without any the answer is 404.
C23_StatusFromStorage ==
    \A k \in Keywords :
        ~Resident(k) =>
            status_response(k).code =
                IF OwnProducts(keywords, products, k) # {} THEN 200 ELSE 404

\* C24 as stated: a DELETE /results/{keyword} that answers success for a
\* keyword with stored products leaves none of the keyword's products, none
\* of their traffic rows, no registry entry and no log buffer of the keyword,
\* and leaves the products and registry entries of the other keywords alone.
C24_DeleteRemovesOwn ==
    [][\A k \in Keywords :
          (/\ OwnProducts(keywords, products, k) # {}
           /\ delete_response(k).code = 200
           /\ products' = products \ DeleteMatch(k)
           /\ products' # products)
          => /\ OwnProducts(keywords', products', k) = {}
             /\ \A p \in OwnProducts(keywords, products, k) :
                    \A i \in 1..Len(traffic') : traffic'[i].product_id # p.id
             /\ running_tasks'[k] = 0
             /\ task_logs'[k] = -1
             /\ \A k2 \in Keywords \ {k} :
                    /\ OwnProducts(keywords', products', k2)
                            = OwnProducts(keywords, products, k2)
                    /\ running_tasks'[k2] = running_tasks[k2]]_vars

\* C25 as stated: DELETE /results/{keyword} for a keyword without stored
\* products answers 404.
C25_DeleteNothingIsNotFound ==
    \A k \in Keywords :
        OwnProducts(keywords, products, k) = {} => delete_response(k).code = 404

\* C28: the keyword table never holds two rows with the same keyword string,
\* whatever runs are submitted and however they interleave.
C28_OneRowPerKeyword ==
    \A i, j \in 1..Len(keywords) :
        keywords[i].keyword = keywords[j].keyword => i = j

\* Two runs of the same keyword have both gone through the lookup of the
\* Keyword row, and the table holds one row for the keyword.
C28_Witness ==
    /\ Len(tasks) = 2
    /\ tasks[1].kw = tasks[2].kw
    /\ \A t \in 1..2 : \E i \in 1..Len(tasks[t].emitted) :
                            tasks[t].emitted[i] = "step1_start"
    /\ Cardinality({i \in 1..Len(keywords) : keywords[i].keyword = tasks[1].kw}) = 1

\* C29 as stated: when a run has ended COMPLETED, the Keyword row of its
\* keyword has status completed and its total_products_discovered is the
\* run's step1_products.
C29_KeywordRowCompleted ==
    \A t \in 1..Len(tasks) :
        LET r == tasks[t]
            ref == running_tasks[r.kw]
            row == keywords[KeywordRowId(keywords, r.kw)]
        IN (/\ r.pc = "returned"
            /\ Len(tasks) = 1
            /\ ref # 0
            /\ heap[ref].status = "completed")
           => /\ row.status = "completed"
              /\ row.total_products_discovered = heap[ref].step1_products

\* C30 as stated: when a run has ended COMPLETED, the number of products
\* stored for its keyword is the run's step1_products and the number of
\* traffic rows of those products is the run's step2_enriched.
C30_StoredCountsMatch ==
    \A t \in 1..Len(tasks) :
        LET r == tasks[t]
            own == OwnProducts(keywords, products, r.kw)
            rows == {i \in 1..Len(traffic) : \E p \in own : traffic[i].product_id = p.id}
        IN (r.pc \in {"complete_emit", "zero_emit"} /\ heap[r.st].status = "completed")
           => /\ Cardinality(own) = heap[r.st].step1_products
              /\ Cardinality(rows) = heap[r.st].step2_enriched

\* C26 as stated: after two upserts of a domain, the second with a strictly
\* higher spend estimate, one row is stored for the domain; its spend,
\* impressions and duration are those of the second upsert, and so are its
\* flags and its last-seen time.
C26_SecondInputsStored ==
    \A i, j \in 1..Len(oplog) :
        LET first == oplog[i].product_data
            second == oplog[j].product_data
            rows == {p \in products : p.brand_domain = first.domain}
        IN (/\ i < j
            /\ oplog[i].op = "product" /\ oplog[j].op = "product"
            /\ first.domain = second.domain
            /\ \A l \in 1..Len(oplog) :
                    (oplog[l].op = "product" /\ oplog[l].product_data.domain = first.domain)
                        => l \in {i, j}
            /\ second.spend > first.spend)
           => /\ Cardinality(rows) = 1
              /\ \A p \in rows :
                    /\ p.spend = second.spend
                    /\ p.impressions = second.impressions
                    /\ p.duration = second.duration
                    /\ p.flags = second.flags
                    /\ p.last_seen = oplog[j].at

\* C26: after two upserts of a domain, the second with a strictly higher
\* spend estimate, one row is stored for the domain; its spend is that of
\* the second upsert, its impressions and its duration are each the higher
\* of the two inputs, its flags and its last-seen time are those of the
\* second upsert and its first-discovered time is that of the first.
C26_HigherEstimatesStored ==
    \A i, j \in 1..Len(oplog) :
        LET first == oplog[i].product_data
            second == oplog[j].product_data
            rows == {p \in products : p.brand_domain = first.domain}
            Max(a, b) == IF a > b THEN a ELSE b
        IN (/\ i < j
            /\ oplog[i].op = "product" /\ oplog[j].op = "product"
            /\ first.domain = second.domain
            /\ \A l \in 1..Len(oplog) :
                    (oplog[l].op = "product" /\ oplog[l].product_data.domain = first.domain)
                        => l \in {i, j}
            /\ second.spend > first.spend)
           => /\ Cardinality(rows) = 1
              /\ \A p \in rows :
                    /\ p.spend = second.spend
                    /\ p.impressions = Max(first.impressions, second.impressions)
                    /\ p.duration = Max(first.duration, second.duration)
                    /\ p.flags = second.flags
                    /\ p.last_seen = oplog[j].at
                    /\ p.first_discovered = oplog[i].at

\* A domain has been upserted twice, the second time with a higher spend,
\* lower impressions and other flags.
C26_Witness ==
    /\ Len(oplog) = 2
    /\ oplog[1].op = "product" /\ oplog[2].op = "product"
    /\ oplog[1].product_data.domain = oplog[2].product_data.domain
    /\ oplog[2].product_data.spend > oplog[1].product_data.spend
    /\ oplog[2].product_data.impressions < oplog[1].product_data.impressions
    /\ oplog[2].product_data.flags # oplog[1].product_data.flags
    /\ Cardinality(products) = 1

\* C27 as stated: after any sequence of save_traffic_data calls for a
\* product id, the traffic table holds exactly one row for the id, and the
\* row's visits and source are those of the last call.
C27_LastWriteStored ==
    \A id \in 1..NDomains :
        LET writes == {l \in 1..Len(oplog) :
                            oplog[l].op = "traffic" /\ oplog[l].product_id = id}
            last == CHOOSE l \in writes : \A m \in writes : m <= l
            rows == {i \in 1..Len(traffic) : traffic[i].product_id = id}
        IN writes # {}
           => /\ Cardinality(rows) = 1
              /\ \A i \in rows :
                    /\ traffic[i].monthly_visits = oplog[last].pair.visits
                    /\ traffic[i].data_source = oplog[last].pair.source

\* C31: with the broadcast_event calls of a keyword taken in the order in
\* which they got the lock, the keyword has no snapshot as long as none of
\* them was a pipeline_start; from then on the snapshot is the one set up by
\* the latest pipeline_start, its history is the list of the events
\* published after that start, in order, and its status follows the last
\* pipeline_complete (completed) or pipeline_error (failed) in that history,
\* and is running when there is none.
C31_SnapshotFollowsPublishes ==
    \A k \in Keywords :
        LET log == calls[k]
            waiting == {p \in 1..NPubs : pubs[p].kw = k /\ pubs[p].pc = "waiting"}
            entered == Len(log) - Cardinality(waiting)
            starts == {i \in 1..entered : log[i] = "pipeline_start"}
            snapshot == pipeline_state[k]
        IN IF starts = {}
           THEN snapshot = NoSnapshot
           ELSE LET start == CHOOSE i \in starts : \A j \in starts : j <= i
                    since == [j \in 1..(entered - start) |->
                                [type |-> log[start + j], seq |-> start + j]]
                    ends == {j \in 1..Len(since) :
                                since[j].type \in {"pipeline_complete", "pipeline_error"}}
                    final == CHOOSE j \in ends : \A i \in ends : i <= j
                IN /\ snapshot.present
                   /\ snapshot.started_at = start
                   /\ snapshot.events = since
                   /\ snapshot.status =
                        IF ends = {} THEN "running"
                        ELSE IF since[final].type = "pipeline_complete"
                             THEN "completed" ELSE "failed"

\* A keyword has seen a second pipeline_start after events of an earlier
\* run, and an event after it.
C31_Witness ==
    \E k \in Keywords :
        /\ pipeline_state[k].present
        /\ pipeline_state[k].started_at > 2
        /\ pipeline_state[k].events # <<>>

\* C32 as stated: every registry entry whose status is COMPLETED has
\* completed_at set and duration_seconds equal to completed_at minus
\* started_at.
C32_CompletedHasDuration ==
    \A ref \in 1..Len(heap) :
        heap[ref].status = "completed"
            => /\ heap[ref].completed_at # NoTime
               /\ heap[ref].started_at # NoTime
               /\ heap[ref].duration_seconds # NoTime
               /\ heap[ref].duration_seconds
                        = heap[ref].completed_at - heap[ref].started_at

\* C33 as stated: a run that is suspended at an await has no storage
\* session of its own open.
C33_NoSessionAcrossAwait ==
    \A t \in 1..Len(tasks) : ~tasks[t].session

\* C34 as stated: the table never holds two rows of one root domain, also
\* while two scrapes save in their worker threads.
C34_OneRowPerDomain ==
    \A p, q \in products : p.brand_domain = q.brand_domain => p = q

\* C35 as stated: a status object that is in one of the running states
\* reaches completed or failed.
C35_RunReachesTerminal ==
    \A ref \in 1..MaxTasks :
        (ref <= Len(heap) /\ heap[ref].status \in {"running_step1", "running_step2"})
            ~> (ref <= Len(heap) /\ heap[ref].status \in Terminal)

\* C36 as stated: whenever the snapshot of a keyword says completed (resp.
\* failed) the registry entry of the keyword says completed (resp. failed),
\* and no step publishes pipeline_complete while the entry says failed.
C36_ViewsAgree ==
    /\ [](\A k \in Keywords :
            (pipeline_state[k].present /\ pipeline_state[k].status \in Terminal)
                => /\ Resident(k)
                   /\ heap[running_tasks[k]].status = pipeline_state[k].status)
    /\ [][\A t \in 1..Len(tasks) :
            (\E i \in 1..Len(Published(t)) : Published(t)[i] = "pipeline_complete")
                => ~(Resident(tasks[t].kw)
                     /\ heap[running_tasks[tasks[t].kw]].status = "failed")]_vars

\* C37 as stated: in the events a run has published the start event is the
\* first; step1_start precedes step1_complete; step2_start comes only after
\* step1_complete; the step2_progress events lie between step2_start and
\* step2_complete, one per product of the enrichment subset; no step event
\* follows pipeline_complete.
C37_EventOrder ==
    \A t \in 1..Len(tasks) :
        LET e == tasks[t].emitted
            before(j, type) == \E i \in 1..(j - 1) : e[i] = type
            progress == {j \in 1..Len(e) : e[j] = "step2_progress"}
            steps == {"step1_start", "step1_complete", "step2_start",
                      "step2_progress", "step2_complete"}
        IN /\ e # <<>> => e[1] = "pipeline_start"
           /\ \A j \in 1..Len(e) :
                /\ e[j] = "step1_complete" => before(j, "step1_start")
                /\ e[j] = "step2_start" => before(j, "step1_complete")
                /\ e[j] = "step2_progress"
                        => before(j, "step2_start") /\ ~before(j, "step2_complete")
                /\ e[j] \in steps => ~before(j, "pipeline_complete")
           /\ tasks[t].pc = "complete_emit"
                => Cardinality(progress) = Len(EnrichSubset(tasks[t].recent))

\* C38 as stated: while a keyword has no registry entry (its run was
\* deleted and it was not submitted again) no step gives it a log buffer,
\* a product row or a traffic row of one of its products.
C38_StaysDeleted ==
    [][\A k \in Keywords :
        (~Resident(k) /\ running_tasks'[k] = 0)
            => LET own == {p.id : p \in OwnProducts(keywords, products, k)}
                   ownAfter == {p.id : p \in OwnProducts(keywords', products', k)}
                   rows == {i \in 1..Len(traffic) : traffic[i].product_id \in own}
                   rowsAfter == {i \in 1..Len(traffic') :
                                    traffic'[i].product_id \in ownAfter}
               IN /\ task_logs[k] = -1 => task_logs'[k] = -1
                  /\ ownAfter \subseteq own
                  /\ Cardinality(rowsAfter) <= Cardinality(rows)]_vars

\* C39 as stated: a run publishes at most one terminal event
\* (pipeline_complete or pipeline_error), and exactly one once it is over.
C39_OneTerminalEvent ==
    \A t \in 1..Len(tasks) :
        LET e == tasks[t].emitted
            terminal == {j \in 1..Len(e) :
                            e[j] \in {"pipeline_complete", "pipeline_error"}}
        IN /\ Cardinality(terminal) <= 1
           /\ tasks[t].pc \in {"returned", "escaped"} => Cardinality(terminal) = 1

\* What stream s has observed or will observe without any further publish.
RECURSIVE CarriedBy(_)
CarriedBy(queue) ==
    IF queue = <<>> THEN <<>> ELSE Carried(Head(queue)) \o CarriedBy(Tail(queue))

C40_Observed(s) == streams[s].got \o CarriedBy(streams[s].queue)

\* Stream s joined during a run of its keyword, is still connected, and the
\* keyword has not been started again since.
C40_Joined(s) ==
    /\ streams[s].pc = "open"
    /\ streams[s].since > 0
    /\ \E i \in 1..Len(connections[streams[s].kw].ids) :
            connections[streams[s].kw].ids[i] = s
    /\ \A j \in (streams[s].since + 1)..Len(calls[streams[s].kw]) :
            calls[streams[s].kw][j] # "pipeline_start"

\* No broadcast_event call for the keyword is under way.
C40_Quiet(k) ==
    \A p \in 1..NPubs : pubs[p].kw = k => pubs[p].pc \in {"idle", "done"}

\* C40 as stated: such a subscriber observes every event of the run, from
\* the start event on, once and in order.
C40_ObservesWholeRun ==
    \A s \in 1..NStreams :
        C40_Joined(s)
            => LET o == C40_Observed(s)
                   k == streams[s].kw
               IN /\ \A i \in 1..Len(o) : o[i] = streams[s].since + i - 1
                  /\ C40_Quiet(k) => streams[s].since + Len(o) - 1 = Len(calls[k])

\* C40: such a subscriber observes every event published after the run's
\* start event, once and in order: the history of its state_sync event,
\* then the live events. The start event itself is not among them.
C40_ObservesSinceStart ==
    \A s \in 1..NStreams :
        C40_Joined(s)
            => LET o == C40_Observed(s)
                   k == streams[s].kw
               IN /\ \A i \in 1..Len(o) : o[i] = streams[s].since + i
                  /\ C40_Quiet(k) => streams[s].since + Len(o) = Len(calls[k])

\* A stream that joined late holds a state_sync event with a history and a
\* live event behind it, and nothing is being published.
C40_Witness ==
    \E s \in 1..NStreams :
        /\ C40_Joined(s)
        /\ C40_Quiet(streams[s].kw)
        /\ Len(streams[s].queue) >= 2
        /\ streams[s].queue[1].type = "state_sync"
        /\ streams[s].queue[1].history # <<>>

====
